---- MODULE Spec2Model ----
(***************************************************************************)
(* A model of the Fantasy NBA report generator: generate_report.py (the    *)
(* entry point generate_html_report with its nested helpers) and utils.py  *)
(* (retry_api_call, the three fetch functions, get_color_for_rank).        *)
(*                                                                         *)
(* Dates are proleptic Gregorian ordinals, as datetime.date.toordinal()    *)
(* gives them (0001-01-01 is day 1, a Monday).  A pandas DataFrame is a    *)
(* record [cols, rows]: the set of its column labels and the sequence of   *)
(* its rows; selecting a label that is not in cols raises KeyError.        *)
(***************************************************************************)
EXTENDS Integers, Sequences, FiniteSets, TLC

VARIABLES
    clock,          \* the system date, datetime.now().date()
    db,             \* what the stats provider holds (the environment)
    net,            \* "up": every remote call answers; "flaky": any call may fail
    delay,          \* the delay argument of retry_api_call
    pc,             \* position of the run
    today, w1_start, w1_end, final_end, season_str,
    stage,          \* the fetch in progress
    i,              \* retry_api_call's loop variable
    status,         \* "running" | "sleeping" | "returned" | "raised"
    outcomes,       \* outcome of each attempt of the fetch in progress
    sleeps,         \* argument of each time.sleep of the fetch in progress
    result,         \* value returned by retry_api_call
    error,          \* exception raised by retry_api_call
    order,          \* the fetches in the order they were started
    inflight,       \* the fetches started and not yet finished
    full_schedule, stats_dict, def_ratings,
    stats_today,    \* today of get_player_stats_multi_period
    d7, d14,        \* the date_from of its L7 and L14 requests
    warned,         \* the "No games found" warning was printed
    current_start, current_end,
    weeks_data,     \* one entry per week processed
    crash,          \* the uncaught exception that ended the run, or "none"
    output          \* the report file was written

vars == <<clock, db, net, delay, pc, today, w1_start, w1_end, final_end,
          season_str, stage, i, status, outcomes, sleeps, result, error,
          order, inflight, full_schedule, stats_dict, def_ratings,
          stats_today, d7, d14, warned, current_start, current_end,
          weeks_data, crash, output>>

dateVars == <<today, w1_start, w1_end, final_end, season_str>>
retryVars == <<i, status, outcomes, sleeps, result, error>>
dataVars == <<full_schedule, stats_dict, def_ratings, stats_today, d7, d14, warned>>
weekVars == <<current_start, current_end, weeks_data, crash, output>>

(***************************************************************************)
(* Bounds of the model.                                                    *)
(***************************************************************************)
YearsBack == 15     \* the system clock may be this many years before 2024
YearsAhead == 1     \* ... and this many years after it
ClockSpan == 4      \* days of system clock explored by the full pipeline
MaxDelay == 6       \* delays explored for retry_api_call alone
MaxRank == 30       \* defensive ranks explored for the badges

(***************************************************************************)
(* datetime.date                                                           *)
(***************************************************************************)
IsLeap(y) == y % 4 = 0 /\ (y % 100 # 0 \/ y % 400 = 0)

DaysInMonth(y, m) ==
    IF m = 2 THEN (IF IsLeap(y) THEN 29 ELSE 28)
    ELSE IF m \in {4, 6, 9, 11} THEN 30 ELSE 31

DaysBeforeYear(y) ==
    (y - 1) * 365 + (y - 1) \div 4 - (y - 1) \div 100 + (y - 1) \div 400

\* days of the year before the first of each month of a common year
DaysBefore == <<0, 31, 59, 90, 120, 151, 181, 212, 243, 273, 304, 334>>

\* date(y, m, d).toordinal()
Ord(y, m, d) ==
    DaysBeforeYear(y) + DaysBefore[m] + (IF m > 2 /\ IsLeap(y) THEN 1 ELSE 0) + d

\* date.fromordinal(n), as datetime's _ord2ymd computes year, month and day
Ymd(n) ==
    LET n0 == n - 1
        n400 == n0 \div 146097
        r400 == n0 % 146097
        n100 == r400 \div 36524
        r100 == r400 % 36524
        n4 == r100 \div 1461
        r4 == r100 % 1461
        n1 == r4 \div 365
        r1 == r4 % 365
        year == n400 * 400 + 1 + n100 * 100 + n4 * 4 + n1
        leapyear == n1 = 3 /\ (n4 # 24 \/ n100 = 3)
        Preceding(m) == DaysBefore[m] + (IF m > 2 /\ leapyear THEN 1 ELSE 0)
        guess == (r1 + 50) \div 32
        month == IF Preceding(guess) > r1 THEN guess - 1 ELSE guess
    IN IF n1 = 4 \/ n100 = 4
       THEN [year |-> year - 1, month |-> 12, day |-> 31]
       ELSE [year |-> year, month |-> month, day |-> r1 - Preceding(month) + 1]

YearOf(n) == Ymd(n).year
MonthOf(n) == Ymd(n).month
DayOf(n) == Ymd(n).day

\* date.weekday(): Monday is 0, Sunday is 6
Weekday(n) == (n + 6) % 7

\* today.replace(year=y): ValueError when the day does not exist in year y
ReplaceYearRaises(n, y) == Ymd(n).day > DaysInMonth(y, Ymd(n).month)
ReplaceYear(n, y) == Ord(y, Ymd(n).month, Ymd(n).day)

(***************************************************************************)
(* generate_html_report, lines 13-37: the date and season resolver         *)
(***************************************************************************)
StaleYear == 2024
TimeTravelYear == 2025
LeapFallbackDays == 365
ThreeWeeks == 21
SeasonStartMonth == 10

ResolveToday(now) ==
    IF YearOf(now) = StaleYear
    THEN IF ReplaceYearRaises(now, TimeTravelYear)
         THEN now + LeapFallbackDays
         ELSE ReplaceYear(now, TimeTravelYear)
    ELSE now

\* the week ended on Saturday
DaysUntilSaturday(t) == (5 - Weekday(t)) % 7

\* line 23
DaysUntilSunday(t) == (6 - Weekday(t)) % 7

W1End(t) == t + DaysUntilSunday(t)

FinalEnd(t) == W1End(t) + ThreeWeeks

\* str(n)[-2:]
LastTwoChars(n) ==
    IF n < 10 THEN ToString(n)
    ELSE ToString((n % 100) \div 10) \o ToString(n % 10)

\* the season started in November: "today.month > 10"
SeasonStrFromNovember(t) ==
    LET curr_year == YearOf(t) IN
    IF MonthOf(t) > SeasonStartMonth
    THEN ToString(curr_year) \o "-" \o LastTwoChars(curr_year + 1)
    ELSE ToString(curr_year - 1) \o "-" \o LastTwoChars(curr_year)

\* lines 33-37
SeasonStr(t) ==
    LET curr_year == YearOf(t) IN
    IF MonthOf(t) >= SeasonStartMonth
    THEN ToString(curr_year) \o "-" \o LastTwoChars(curr_year + 1)
    ELSE ToString(curr_year - 1) \o "-" \o LastTwoChars(curr_year)

(***************************************************************************)
(* utils.retry_api_call                                                    *)
(***************************************************************************)
retries == 5
DefaultDelay == 5

\* a backoff that does not grow with the attempt
SleepTimeFlat(d, k) == d

\* sleep_time = delay * (i + 1)
SleepTime(d, k) == d * (k + 1)

\* a sixth attempt allowed: "if i < retries"
MayRetryOnceMore(k) == k < retries

\* the branch "if i < retries - 1" of the except clause
MayRetry(k) == k < retries - 1

\* what the remote call of attempt k can do
AttemptOutcomes(k) ==
    IF net = "up" THEN {[kind |-> "ok", attempt |-> k + 1]}
    ELSE {[kind |-> x, attempt |-> k + 1] : x \in {"ok", "transient", "other"}}

(***************************************************************************)
(* The stats provider.  db holds the games (as day offsets from the start  *)
(* of the requested range), the players with a game in the last 7 and 14   *)
(* days, and the advanced team table.                                      *)
(***************************************************************************)
Stages == <<"schedule", "season", "L7", "L14", "ratings">>

\* nba_api.stats.static.teams.get_teams(), as the map id -> abbreviation
id_to_abbr == [t \in {1, 2, 3} |-> <<"AAA", "BBB", "CCC">>[t]]

CandidateGames ==
    << [off |-> 0,  home |-> 1, away |-> 2],
       [off |-> 9,  home |-> 2, away |-> 1],
       [off |-> 16, home |-> 1, away |-> 3] >>

GameOptions ==
    { <<>>,
      <<CandidateGames[1]>>,
      <<CandidateGames[2], CandidateGames[3]>>,
      CandidateGames }

Players ==
    << [PLAYER_ID |-> 101, PLAYER_NAME |-> "Ann", TEAM_ID |-> 1, GP |-> 10],
       [PLAYER_ID |-> 102, PLAYER_NAME |-> "Bob", TEAM_ID |-> 2, GP |-> 4],
       [PLAYER_ID |-> 103, PLAYER_NAME |-> "Cid", TEAM_ID |-> 3, GP |-> 0] >>

RecentOptions ==
    { [l7 |-> {}, l14 |-> {101}],
      [l7 |-> {101}, l14 |-> {101, 102}],
      [l7 |-> {101, 102}, l14 |-> {101, 102}] }

RatingOptions ==
    { [has_def |-> TRUE,
       rows |-> << [TEAM_ID |-> 1, DEF_RATING |-> 112, W_PCT |-> 60],
                   [TEAM_ID |-> 2, DEF_RATING |-> 108, W_PCT |-> 40] >>],
      [has_def |-> FALSE,
       rows |-> << [TEAM_ID |-> 2, W_PCT |-> 40],
                   [TEAM_ID |-> 1, W_PCT |-> 60] >>] }

Databases ==
    [games : GameOptions, recent : RecentOptions, ratings : RatingOptions]

RatingLevels == 3   \* distinct ratings (win percentages) the teams of a table have

\* the teams of a table, in the order of its rows: any teams of the league
TeamOrders ==
    {o \in UNION {[1..n -> DOMAIN id_to_abbr] : n \in 0..Cardinality(DOMAIN id_to_abbr)} :
        \A a, b \in 1..Len(o) : a # b => o[a] # o[b]}

\* the advanced team table of teams o with ratings 105 + lv, or, without
\* the rating column, with win percentages 100 * lv
RatingTable(o, lv, has_def) ==
    [has_def |-> has_def,
     rows |-> [k \in 1..Len(o) |->
                 IF has_def
                 THEN [TEAM_ID |-> o[k], DEF_RATING |-> 105 + lv[k], W_PCT |-> 500]
                 ELSE [TEAM_ID |-> o[k], W_PCT |-> 100 * lv[k]]]]

\* the advanced team tables: any teams in any order, ratings that may tie
RatingTables ==
    UNION {{RatingTable(o, lv, has_def) :
               lv \in [1..Len(o) -> 1..RatingLevels], has_def \in BOOLEAN}
           : o \in TeamOrders}

\* a DataFrame
Frame(cols, rows) == [kind |-> "frame", cols |-> cols, rows |-> rows]
\* pd.DataFrame()
EmptyFrame == Frame({}, <<>>)
IsEmpty(df) == df.cols = {} \/ Len(df.rows) = 0

RECURSIVE Flatten(_)
\* the concatenation of a sequence of sequences
Flatten(ss) == IF Len(ss) = 0 THEN <<>> ELSE Head(ss) \o Flatten(Tail(ss))

Project(row, cols) == [c \in cols |-> row[c]]

\* LeagueGameFinder(date_from, date_to, season).get_data_frames()[0]:
\* one row per team of each game between the two dates
ScheduleResponse(start_date, end_date) ==
    LET Rows(g) ==
            LET d == start_date + g.off IN
            IF d > end_date THEN <<>>
            ELSE << [GAME_ID |-> g.off, TEAM_ID |-> g.home,
                     TEAM_ABBREVIATION |-> id_to_abbr[g.home], GAME_DATE |-> d,
                     MATCHUP |-> <<id_to_abbr[g.home], "vs.", id_to_abbr[g.away]>>],
                    [GAME_ID |-> g.off, TEAM_ID |-> g.away,
                     TEAM_ABBREVIATION |-> id_to_abbr[g.away], GAME_DATE |-> d,
                     MATCHUP |-> <<id_to_abbr[g.away], "@", id_to_abbr[g.home]>>] >>
    IN Frame({"GAME_ID", "TEAM_ID", "TEAM_ABBREVIATION", "GAME_DATE", "MATCHUP"},
             Flatten([k \in 1..Len(db.games) |-> Rows(db.games[k])]))

ProviderStatCols ==
    {"PLAYER_ID", "PLAYER_NAME", "TEAM_ID", "TEAM_ABBREVIATION", "AGE", "GP",
     "MIN", "PTS", "REB", "AST", "STL", "BLK", "FG_PCT", "FT_PCT", "FG3M"}

\* A float is held in fixed point, as a number of thousandths: the provider
\* gives a per-game stat with one decimal and a ratio with three.
\* the points per game the provider reports for a player over a period:
\* 10.0, 10.7 and 11.4 for player 101
Pts(period, id) ==
    10000 * (id - 100)
    + (IF period = "season" THEN 0 ELSE IF period = "L7" THEN 700 ELSE 1400)

\* the field-goal ratio it reports: 0.457, 1.000 and 0.000
FgPct(id) == IF id = 101 THEN 457 ELSE IF id = 102 THEN 1000 ELSE 0

\* LeagueDashPlayerStats(season, date_from).get_data_frames()[0]
StatsResponse(period) ==
    LET present == IF period = "season" THEN {101, 102, 103}
                   ELSE IF period = "L7" THEN db.recent.l7 ELSE db.recent.l14
        Row(p) == [PLAYER_ID |-> p.PLAYER_ID, PLAYER_NAME |-> p.PLAYER_NAME,
                   TEAM_ID |-> p.TEAM_ID, TEAM_ABBREVIATION |-> id_to_abbr[p.TEAM_ID],
                   AGE |-> 25,
                   GP |-> IF period = "season" THEN p.GP ELSE 1,
                   MIN |-> 31300, PTS |-> Pts(period, p.PLAYER_ID),
                   REB |-> 5200, AST |-> 4000, STL |-> 1100, BLK |-> 500,
                   FG_PCT |-> FgPct(p.PLAYER_ID), FT_PCT |-> 805, FG3M |-> 2100]
        Keep(p) == p.PLAYER_ID \in present
        Rows(p) == IF Keep(p) THEN <<Row(p)>> ELSE <<>>
    IN Frame(ProviderStatCols, Flatten([k \in 1..Len(Players) |-> Rows(Players[k])]))

\* LeagueDashTeamStats(season, measure_type='Advanced').get_data_frames()[0]
RatingsResponse ==
    Frame(IF db.ratings.has_def THEN {"TEAM_ID", "DEF_RATING", "W_PCT"}
          ELSE {"TEAM_ID", "W_PCT"},
          db.ratings.rows)

\* the remote call of the fetch in progress
Response ==
    IF stage = "schedule" THEN ScheduleResponse(w1_start, final_end)
    ELSE IF stage = "ratings" THEN RatingsResponse
    ELSE StatsResponse(stage)

NoResult == [kind |-> "none"]
NoError == [kind |-> "none", attempt |-> 0]

(***************************************************************************)
(* retry_api_call: one attempt of the loop, and the sleep between two      *)
(***************************************************************************)
RetryCall ==
    /\ pc = "fetch"
    /\ status = "running"
    /\ i < retries
    /\ \E o \in AttemptOutcomes(i) :
        /\ outcomes' = Append(outcomes, o)
        /\ IF o.kind = "ok"
           THEN status' = "returned" /\ result' = Response /\ error' = error
           ELSE IF o.kind = "transient" /\ MayRetry(i)
           THEN status' = "sleeping" /\ UNCHANGED <<result, error>>
           ELSE status' = "raised" /\ error' = o /\ result' = result
    /\ UNCHANGED <<clock, db, net, delay, pc, stage, i, sleeps, order, inflight>>
    /\ UNCHANGED <<dateVars, dataVars, weekVars>>

RetrySleep ==
    /\ pc = "fetch"
    /\ status = "sleeping"
    /\ sleeps' = Append(sleeps, SleepTime(delay, i))
    /\ i' = i + 1
    /\ status' = IF i + 1 < retries THEN "running" ELSE "returned"
    /\ UNCHANGED <<clock, db, net, delay, pc, stage, outcomes, result, error,
                   order, inflight>>
    /\ UNCHANGED <<dateVars, dataVars, weekVars>>

\* a fetch entered while the one before it is still in progress
BeginOverlapping(s) ==
    /\ stage' = s
    /\ i' = 0
    /\ status' = "running"
    /\ outcomes' = <<>>
    /\ sleeps' = <<>>
    /\ result' = NoResult
    /\ error' = NoError
    /\ order' = Append(order, s)
    /\ inflight' = inflight \cup {s}

\* the caller enters retry_api_call for fetch s
Begin(s) ==
    /\ stage' = s
    /\ i' = 0
    /\ status' = "running"
    /\ outcomes' = <<>>
    /\ sleeps' = <<>>
    /\ result' = NoResult
    /\ error' = NoError
    /\ order' = Append(order, s)
    /\ inflight' = (inflight \ {stage}) \cup {s}

(***************************************************************************)
(* pandas helpers                                                          *)
(***************************************************************************)
NaN == "NaN"
\* pd.isna(v), for a cell of any type
IsNaN(v) == ToString(v) = ToString(NaN)

Range(s) == {s[k] : k \in 1..Len(s)}

\* row.get(key, default)
Get(row, key, default) == IF key \in DOMAIN row THEN row[key] ELSE default

\* df.add_suffix(sfx)
AddSuffix(df, sfx) ==
    LET Rename(row) ==
            [c \in {d \o sfx : d \in DOMAIN row} |->
                row[CHOOSE d \in DOMAIN row : d \o sfx = c]]
    IN Frame({c \o sfx : c \in df.cols},
             [k \in 1..Len(df.rows) |-> Rename(df.rows[k])])

\* pd.merge(left, right, left_on=lk, right_on=rk, how='left'): every left row
\* is kept, once per matching right row, and once with NaN when none matches
MergeLeft(left, right, lk, rk) ==
    LET newcols == right.cols \ left.cols
        Combine(l, r) ==
            [c \in left.cols \cup right.cols |->
                IF c \in left.cols THEN l[c] ELSE r[c]]
        Unmatched(l) ==
            [c \in left.cols \cup right.cols |->
                IF c \in left.cols THEN l[c] ELSE NaN]
        Joined(l) ==
            LET Match(r) == r[rk] = l[lk]
                ms == SelectSeq(right.rows, Match)
            IN IF Len(ms) = 0 THEN <<Unmatched(l)>>
               ELSE [k \in 1..Len(ms) |-> Combine(l, ms[k])]
    IN Frame(left.cols \cup newcols, Flatten([k \in 1..Len(left.rows) |-> Joined(left.rows[k])]))

RECURSIVE InsertSorted(_, _)
\* a <<key, row>> pair put after the pairs whose key is not larger
InsertSorted(sorted, pair) ==
    IF Len(sorted) = 0 THEN <<pair>>
    ELSE IF pair[1] < sorted[1][1] THEN <<pair>> \o sorted
    ELSE <<sorted[1]>> \o InsertSorted(Tail(sorted), pair)

RECURSIVE SortPairs(_, _)
SortPairs(pairs, k) ==
    IF k = 0 THEN <<>> ELSE InsertSorted(SortPairs(pairs, k - 1), pairs[k])

\* the table left as the provider gave it
SortRowsSkipped(rows, by, ascending) == rows

\* df.sort_values(by, ascending): rows with equal keys keep their order
SortRows(rows, by, ascending) ==
    LET pairs == [k \in 1..Len(rows) |->
                    <<IF ascending THEN rows[k][by] ELSE 0 - rows[k][by], rows[k]>>]
        sorted == SortPairs(pairs, Len(pairs))
    IN [k \in 1..Len(sorted) |-> sorted[k][2]]

RECURSIVE Unique(_, _)
\* Series.unique(): the values in order of first appearance
Unique(s, k) ==
    IF k = 0 THEN <<>>
    ELSE LET u == Unique(s, k - 1)
         IN IF s[k] \in Range(u) THEN u ELSE Append(u, s[k])

(***************************************************************************)
(* utils.get_schedule, fetch_stats, get_team_defensive_ratings: what each  *)
(* makes of the outcome of retry_api_call                                  *)
(***************************************************************************)
ScheduleCols == {"TEAM_ID", "TEAM_ABBREVIATION", "GAME_DATE", "MATCHUP"}

\* get_schedule, lines 46-62
ScheduleFrame(st, res) ==
    IF st = "raised" \/ res.kind # "frame" THEN EmptyFrame
    ELSE IF IsEmpty(res) THEN EmptyFrame
    ELSE Frame(ScheduleCols,
               [k \in 1..Len(res.rows) |-> Project(res.rows[k], ScheduleCols)])

WantedStatCols ==
    {"PLAYER_ID", "PLAYER_NAME", "TEAM_ID", "TEAM_ABBREVIATION", "GP",
     "MIN", "PTS", "REB", "AST", "STL", "BLK", "FG_PCT", "FT_PCT", "FG3M"}

\* fetch_stats, lines 87-102
StatsFrame(st, res) ==
    IF st = "raised" \/ res.kind # "frame" THEN EmptyFrame
    ELSE LET existing_cols == res.cols \cap WantedStatCols
         IN Frame(existing_cols,
                  [k \in 1..Len(res.rows) |-> Project(res.rows[k], existing_cols)])

Abbr(tid) == IF tid \in DOMAIN id_to_abbr THEN id_to_abbr[tid] ELSE "UNK"

\* get_team_defensive_ratings, lines 145-175
DefMap(st, res) ==
    IF st = "raised" \/ res.kind # "frame" THEN <<>>
    ELSE LET df == IF "DEF_RATING" \in res.cols
                   THEN SortRows(res.rows, "DEF_RATING", TRUE)
                   ELSE SortRows(res.rows, "W_PCT", FALSE)
             Last(abbr) == CHOOSE k \in 1..Len(df) :
                              /\ Abbr(df[k].TEAM_ID) = abbr
                              /\ \A j \in (k + 1)..Len(df) : Abbr(df[j].TEAM_ID) # abbr
         IN [abbr \in {Abbr(df[k].TEAM_ID) : k \in 1..Len(df)} |->
                [Rank |-> Last(abbr), DefRtg |-> Get(df[Last(abbr)], "DEF_RATING", 0)]]

(***************************************************************************)
(* utils.get_color_for_rank and get_badge_html                             *)
(***************************************************************************)
Red == "#ffcccc"
Orange == "#ffe5cc"
Yellow == "#ffffcc"
LightGreen == "#e5ffcc"
Green == "#ccffcc"

\* the boundaries taken strictly: "rank < 6", "rank < 12", ...
get_color_for_rank_strict(rank) ==
    IF rank < 6 THEN Red
    ELSE IF rank < 12 THEN Orange
    ELSE IF rank < 18 THEN Yellow
    ELSE IF rank < 24 THEN LightGreen
    ELSE Green

get_color_for_rank(rank) ==
    IF rank <= 6 THEN Red
    ELSE IF rank <= 12 THEN Orange
    ELSE IF rank <= 18 THEN Yellow
    ELSE IF rank <= 24 THEN LightGreen
    ELSE Green

DefaultRank == 15

\* an opponent without a rating taken for the weakest defence
BadgeInfoDefaultLast(ratings, opp_abbr, is_home) ==
    LET def_info == Get(ratings, opp_abbr, [Rank |-> 30])
    IN [opp |-> opp_abbr,
        rank |-> def_info.Rank,
        color |-> get_color_for_rank(def_info.Rank),
        prefix |-> IF is_home THEN "vs" ELSE "@"]

\* get_badge_html, lines 72-75: the rank, colour and prefix of a badge
BadgeInfo(ratings, opp_abbr, is_home) ==
    LET def_info == Get(ratings, opp_abbr, [Rank |-> DefaultRank])
    IN [opp |-> opp_abbr,
        rank |-> def_info.Rank,
        color |-> get_color_for_rank(def_info.Rank),
        prefix |-> IF is_home THEN "vs" ELSE "@"]

\* get_badge_html, line 76
get_badge_html(ratings, opp_abbr, is_home) ==
    LET b == BadgeInfo(ratings, opp_abbr, is_home)
    IN "<div style='background-color:" \o b.color \o ";' title='Def Rank: "
       \o ToString(b.rank) \o "'>" \o b.prefix \o " " \o b.opp \o "</div>"

(***************************************************************************)
(* process_week_grid, lines 56-151                                         *)
(***************************************************************************)
DayAbbr == <<"Mon", "Tue", "Wed", "Thu", "Fri", "Sat", "Sun">>

Pad2(n) == IF n < 10 THEN "0" \o ToString(n) ELSE ToString(n)

\* d.strftime('%a (%m/%d)')
DayLabel(d) ==
    LET ymd == Ymd(d)
    IN DayAbbr[Weekday(d) + 1] \o " (" \o Pad2(ymd.month) \o "/" \o Pad2(ymd.day) \o ")"

\* lines 58-64
WeekDays(start_date, end_date) ==
    [k \in 1..(IF end_date >= start_date THEN end_date - start_date + 1 ELSE 0) |->
        start_date + k - 1]

Placeholder == "-"

\* lines 78-102: the team schedule grid of the games of one week
TeamGrid(week_games, days, day_cols, ratings) ==
    LET all_team_ids ==
            Unique([k \in 1..Len(week_games) |-> week_games[k].TEAM_ID], Len(week_games))
        TeamRow(tid) ==
            LET OfTeam(g) == g.TEAM_ID = tid
                t_games == SelectSeq(week_games, OfTeam)
                Cell(d) ==
                    LET On(g) == g.GAME_DATE = d
                        g == SelectSeq(t_games, On)
                    IN IF Len(g) > 0
                       THEN LET matchup == g[1].MATCHUP
                            IN get_badge_html(ratings, matchup[3], "vs." \in Range(matchup))
                       ELSE ""
            IN [c \in {"TEAM_ID", "Team", "Games"} \cup Range(day_cols) |->
                    IF c = "TEAM_ID" THEN tid
                    ELSE IF c = "Team" THEN t_games[1].TEAM_ABBREVIATION
                    ELSE IF c = "Games" THEN Len(t_games)
                    ELSE Cell(days[CHOOSE k \in 1..Len(days) : day_cols[k] = c])]
        team_grid_data == [k \in 1..Len(all_team_ids) |-> TeamRow(all_team_ids[k])]
    IN IF Len(team_grid_data) = 0 THEN EmptyFrame
       ELSE Frame({"TEAM_ID", "Team", "Games"} \cup Range(day_cols),
                  SortRows(team_grid_data, "Games", FALSE))

\* lines 118-129: the team grid joined to the players, NaN filled
AddSchedule(merged, team_df, day_cols) ==
    IF IsEmpty(team_df) THEN merged
    ELSE LET schedule_cols == {"Games"} \cup Range(day_cols)
             team_schedule ==
                 Frame({"TEAM_ABBREVIATION"} \cup schedule_cols,
                       [k \in 1..Len(team_df.rows) |->
                           [c \in {"TEAM_ABBREVIATION"} \cup schedule_cols |->
                               IF c = "TEAM_ABBREVIATION" THEN team_df.rows[k].Team
                               ELSE team_df.rows[k][c]]])
             joined == MergeLeft(merged, team_schedule,
                                 "TEAM_ABBREVIATION", "TEAM_ABBREVIATION")
             Fill(row) ==
                 [c \in DOMAIN row |->
                     IF c \in schedule_cols /\ IsNaN(row[c])
                     THEN (IF c = "Games" THEN 0 ELSE Placeholder)
                     ELSE row[c]]
         IN Frame(joined.cols, [k \in 1..Len(joined.rows) |-> Fill(joined.rows[k])])

\* '{:.1f}'.format(v) of a float v: one decimal, rounded
Format1f(v) ==
    IF IsNaN(v) THEN "nan"
    ELSE LET tenths == (v + 50) \div 100
         IN ToString(tenths \div 10) \o "." \o ToString(tenths % 10)

\* lines 135-136: (ratio * 100) formatted by '{:.1f}%'; NaN * 100 is NaN
FormatPct(ratio) ==
    (IF IsNaN(ratio) THEN Format1f(NaN) ELSE Format1f(ratio * 100)) \o "%"

\* df.rename(columns={old: new}); a label the frame does not have is ignored
RenameColumn(df, old, new) ==
    IF old \notin df.cols THEN df
    ELSE LET cols == (df.cols \ {old}) \cup {new}
         IN Frame(cols, [k \in 1..Len(df.rows) |->
                           [c \in cols |-> IF c = new THEN df.rows[k][old]
                                           ELSE df.rows[k][c]]])

\* lines 135-149 for one group of columns (sfx is "", "_L7" or "_L14"): the
\* two percentage columns are added and FG3M is renamed
FormatStats(df, sfx) ==
    LET cols == df.cols \cup {"FG%" \o sfx, "FT%" \o sfx}
        added == Frame(cols, [k \in 1..Len(df.rows) |->
                     [c \in cols |->
                         IF c = "FG%" \o sfx THEN FormatPct(df.rows[k]["FG_PCT" \o sfx])
                         ELSE IF c = "FT%" \o sfx THEN FormatPct(df.rows[k]["FT_PCT" \o sfx])
                         ELSE df.rows[k][c]]])
    IN RenameColumn(added, "FG3M" \o sfx, "3PM" \o sfx)

\* lines 140 and 146: a group of L7 or L14 columns is formatted when it is there
FormatStatsIfPresent(df, sfx) ==
    IF ("FG_PCT" \o sfx) \in df.cols THEN FormatStats(df, sfx) ELSE df

\* line 132
PlayerLabel(row) ==
    "<b>" \o row.PLAYER_NAME \o "</b> <br><span style='color:#888'>"
    \o row.TEAM_ABBREVIATION \o "</span>"

\* line 132: the Player column
AddPlayer(df) ==
    Frame(df.cols \cup {"Player"},
          [k \in 1..Len(df.rows) |->
              [c \in df.cols \cup {"Player"} |->
                  IF c = "Player" THEN PlayerLabel(df.rows[k]) ELSE df.rows[k][c]]])

\* the first column that lines 135-148 select and the frame does not have
MissingPctColumn(df) ==
    IF "FG_PCT" \notin df.cols THEN "FG_PCT"
    ELSE IF "FT_PCT" \notin df.cols THEN "FT_PCT"
    ELSE IF "FG_PCT_L7" \in df.cols /\ "FT_PCT_L7" \notin df.cols THEN "FT_PCT_L7"
    ELSE IF "FG_PCT_L14" \in df.cols /\ "FT_PCT_L14" \notin df.cols THEN "FT_PCT_L14"
    ELSE "none"

\* lines 134-151: the stats of the three groups formatted, and the return
FormatGrid(df, team_df, day_cols) ==
    IF MissingPctColumn(df) # "none"
    THEN [err |-> "KeyError: " \o MissingPctColumn(df), team_df |-> EmptyFrame,
          player_df |-> EmptyFrame, day_cols |-> day_cols]
    ELSE [err |-> "none", team_df |-> team_df,
          player_df |-> FormatStatsIfPresent(
                            FormatStatsIfPresent(FormatStats(df, ""), "_L7"), "_L14"),
          day_cols |-> day_cols]

\* The value of process_week_grid(start_date, end_date, ...), or the KeyError
\* it raises on selecting a column its input frame does not have.
process_week_grid(start_date, end_date, schedule_df, stats, ratings) ==
    LET days == WeekDays(start_date, end_date)
        day_cols == [k \in 1..Len(days) |-> DayLabel(days[k])]
        InWeek(g) == g.GAME_DATE >= start_date /\ g.GAME_DATE <= end_date
        week_games == SelectSeq(schedule_df.rows, InWeek)
        team_df == TeamGrid(week_games, days, day_cols, ratings)
        Active(r) == r.GP > 0
        base_df == Frame(stats.Season.cols, SelectSeq(stats.Season.rows, Active))
        l7 == AddSuffix(stats.L7, "_L7")
        l14 == AddSuffix(stats.L14, "_L14")
        merged1 == MergeLeft(base_df, l7, "PLAYER_ID", "PLAYER_ID_L7")
        merged2 == MergeLeft(merged1, l14, "PLAYER_ID", "PLAYER_ID_L14")
        merged3 == AddSchedule(merged2, team_df, day_cols)
        Raise(key) == [err |-> "KeyError: " \o key, team_df |-> EmptyFrame,
                       player_df |-> EmptyFrame, day_cols |-> day_cols]
    IN IF "GAME_DATE" \notin schedule_df.cols THEN Raise("GAME_DATE")
       ELSE IF "GP" \notin stats.Season.cols THEN Raise("GP")
       ELSE IF "PLAYER_ID_L7" \notin l7.cols THEN Raise("PLAYER_ID_L7")
       ELSE IF "PLAYER_ID_L14" \notin l14.cols THEN Raise("PLAYER_ID_L14")
       ELSE FormatGrid(AddPlayer(merged3), team_df, day_cols)

(***************************************************************************)
(* generate_html, lines 154-256: the rows of the two tables of one week    *)
(***************************************************************************)
\* line 185
stat_metrics == <<"MIN", "PTS", "REB", "AST", "3PM", "STL", "BLK", "FG%", "FT%">>

\* the columns that hold strings, those '{:.1f}%'.format built (lines 135-148);
\* the other stat columns hold floats
PctMetrics == {"FG%", "FT%"}

\* the suffix argument of create_stat_cell for the three groups, lines 241-250
Suffixes == <<"", "L7", "L14">>

Char(str, k) == SubSeq(str, k, k)

IsDigit(c) == \E d \in 0..9 : ToString(d) = c

RECURSIVE Digits(_, _)
\* int() of the first k characters of a string of digits
Digits(str, k) ==
    IF k = 0 THEN 0
    ELSE 10 * Digits(str, k - 1) + (CHOOSE d \in 0..9 : ToString(d) = Char(str, k))

\* float(str) does not raise ValueError; the strings told apart are "nan"
\* and the decimal notations with one to three decimals
CanParseFloat(str) ==
    \/ str = "nan"
    \/ \E dot \in 2..(Len(str) - 1) :
          /\ Char(str, dot) = "."
          /\ Len(str) - dot <= 3
          /\ \A k \in (1..Len(str)) \ {dot} : IsDigit(Char(str, k))

\* float(str), in thousandths
ParseFloat(str) ==
    IF str = "nan" THEN NaN
    ELSE LET dot == CHOOSE k \in 1..Len(str) : Char(str, k) = "."
             frac == SubSeq(str, dot + 1, Len(str))
             scale == <<100, 10, 1>>[Len(frac)]
         IN 1000 * Digits(str, dot - 1) + scale * Digits(frac, Len(frac))

\* str(v) of a float v: the shortest decimal notation, one decimal at least
StrFloat(v) ==
    IF IsNaN(v) THEN "nan"
    ELSE LET frac == v % 1000
             decimals == IF frac % 100 = 0 THEN ToString(frac \div 100)
                         ELSE IF frac % 10 = 0
                         THEN ToString(frac \div 100) \o ToString((frac \div 10) % 10)
                         ELSE ToString(frac \div 100) \o ToString((frac \div 10) % 10)
                              \o ToString(frac % 10)
         IN ToString(v \div 1000) \o "." \o decimals

\* '%' in str
HasPercent(str) == \E k \in 1..Len(str) : Char(str, k) = "%"

RECURSIVE StripPercent(_)
\* str.strip('%')
StripPercent(str) ==
    IF Len(str) > 0 /\ Char(str, Len(str)) = "%"
    THEN StripPercent(SubSeq(str, 1, Len(str) - 1))
    ELSE IF Len(str) > 0 /\ Char(str, 1) = "%"
    THEN StripPercent(SubSeq(str, 2, Len(str)))
    ELSE str

\* create_stat_cell, lines 222-238: the data-order attribute and the text
\* of the cell
create_stat_cell(row, metric, suffix) ==
    LET key == IF suffix # "" THEN metric \o "_" \o suffix ELSE metric
        val == Get(row, key, 0)
        is_str == key \in DOMAIN row /\ metric \in PctMetrics
        is_float == key \in DOMAIN row /\ metric \notin PctMetrics
        parsed == is_str /\ HasPercent(val)
        sort_val == IF parsed
                    THEN (IF CanParseFloat(StripPercent(val))
                          THEN ParseFloat(StripPercent(val)) ELSE 0)
                    ELSE val
        sort_is_float == is_float \/ (parsed /\ CanParseFloat(StripPercent(val)))
    IN [metric |-> metric,
        order |-> IF sort_is_float THEN StrFloat(sort_val)
                  ELSE IF is_str /\ ~ parsed THEN sort_val
                  ELSE ToString(sort_val),
        text |-> IF is_float THEN Format1f(val)
                 ELSE IF is_str THEN val
                 ELSE ToString(val)]

generate_html(team_df, player_df, day_cols) ==
    IF IsEmpty(player_df)
    THEN [nodata |-> TRUE, team |-> <<>>, players |-> <<>>]
    ELSE [nodata |-> FALSE,
          team |-> IF IsEmpty(team_df) THEN <<>>
                   ELSE [k \in 1..Len(team_df.rows) |->
                            [Team |-> team_df.rows[k].Team,
                             Games |-> team_df.rows[k].Games,
                             Days |-> [j \in 1..Len(day_cols) |->
                                          team_df.rows[k][day_cols[j]]]]],
          players |-> [k \in 1..Len(player_df.rows) |->
                          LET row == player_df.rows[k] IN
                          [Player |-> row.Player,
                           Team |-> row.TEAM_ABBREVIATION,
                           Games |-> Get(row, "Games", 0),
                           Days |-> [j \in 1..Len(day_cols) |->
                                        Get(row, day_cols[j], "")],
                           Cells |-> [g \in 1..Len(Suffixes) |->
                                         [m \in 1..Len(stat_metrics) |->
                                             create_stat_cell(row, stat_metrics[m],
                                                              Suffixes[g])]]]]]

(***************************************************************************)
(* generate_html_report: the run                                           *)
(***************************************************************************)
NumWeeks == 4

\* lines 13-44: today, the reporting window, the season; get_schedule is entered
Resolve ==
    /\ pc = "start"
    /\ today' = ResolveToday(clock)
    /\ w1_start' = today'
    /\ w1_end' = W1End(today')
    /\ final_end' = FinalEnd(today')
    /\ season_str' = SeasonStr(today')
    /\ pc' = "fetch"
    /\ Begin("schedule")
    /\ UNCHANGED <<clock, db, net, delay>>
    /\ UNCHANGED <<dataVars, weekVars>>

Finished(s) == pc = "fetch" /\ stage = s /\ status \in {"returned", "raised"}

\* get_schedule returns (utils.py 46-62); lines 46-50 of the run
FinishSchedule ==
    /\ Finished("schedule")
    /\ full_schedule' = ScheduleFrame(status, result)
    /\ warned' = IsEmpty(full_schedule')
    /\ Begin("season")
    /\ UNCHANGED <<clock, db, net, delay, pc, stats_dict, def_ratings,
                   stats_today, d7, d14>>
    /\ UNCHANGED <<dateVars, weekVars>>

\* fetch_stats() returns; utils.py 105-117: today is read from the system
\* clock, and fetch_stats(d7) is entered
FinishSeason ==
    /\ Finished("season")
    /\ stats_dict' = [stats_dict EXCEPT !.Season = StatsFrame(status, result)]
    /\ stats_today' = clock
    /\ d7' = stats_today' - 7
    /\ Begin("L7")
    /\ UNCHANGED <<clock, db, net, delay, pc, full_schedule, def_ratings, d14,
                   warned>>
    /\ UNCHANGED <<dateVars, weekVars>>

\* fetch_stats(d7) returns; utils.py 117-122
FinishL7 ==
    /\ Finished("L7")
    /\ stats_dict' = [stats_dict EXCEPT !.L7 = StatsFrame(status, result)]
    /\ d14' = stats_today - 14
    /\ Begin("L14")
    /\ UNCHANGED <<clock, db, net, delay, pc, full_schedule, def_ratings,
                   stats_today, d7, warned>>
    /\ UNCHANGED <<dateVars, weekVars>>

\* fetch_stats(d14) returns; utils.py 122-128, then line 53 of the run
FinishL14 ==
    /\ Finished("L14")
    /\ stats_dict' = [stats_dict EXCEPT !.L14 = StatsFrame(status, result)]
    /\ Begin("ratings")
    /\ UNCHANGED <<clock, db, net, delay, pc, full_schedule, def_ratings,
                   stats_today, d7, d14, warned>>
    /\ UNCHANGED <<dateVars, weekVars>>

\* get_team_defensive_ratings returns; lines 258-261 of the run
FinishRatings ==
    /\ Finished("ratings")
    /\ def_ratings' = DefMap(status, result)
    /\ inflight' = inflight \ {stage}
    /\ stage' = "none"
    /\ pc' = "weeks"
    /\ current_start' = w1_start
    /\ current_end' = w1_end
    /\ UNCHANGED <<clock, db, net, delay, order, full_schedule, stats_dict,
                   stats_today, d7, d14, warned, weeks_data, crash, output>>
    /\ UNCHANGED <<dateVars, retryVars>>

\* the next week started on the last day of this one
NextStartOverlapping(end_date) == end_date

\* line 274: current_start = current_end + timedelta(days=1)
NextStart(end_date) == end_date + 1
\* line 275: current_end = current_start + timedelta(days=6)
NextEnd(start_date) == start_date + 6

\* lines 263-275: one iteration of the week loop
ProcessWeek ==
    /\ pc = "weeks"
    /\ Len(weeks_data) < NumWeeks
    /\ \E g \in {process_week_grid(current_start, current_end, full_schedule,
                                   stats_dict, def_ratings)} :
          IF g.err # "none"
          THEN /\ pc' = "crashed"
               /\ crash' = g.err
               /\ UNCHANGED <<current_start, current_end, weeks_data>>
          ELSE /\ weeks_data' = Append(weeks_data,
                     [start |-> current_start, end |-> current_end,
                      team_df |-> g.team_df, player_df |-> g.player_df,
                      day_cols |-> g.day_cols,
                      content |-> generate_html(g.team_df, g.player_df, g.day_cols)])
               /\ current_start' = NextStart(current_end)
               /\ current_end' = NextEnd(current_start')
               /\ UNCHANGED <<pc, crash>>
    /\ UNCHANGED <<clock, db, net, delay, stage, order, inflight, output>>
    /\ UNCHANGED <<dateVars, retryVars, dataVars>>

\* lines 406-411: the report file is written
WriteReport ==
    /\ pc = "weeks"
    /\ Len(weeks_data) = NumWeeks
    /\ output' = TRUE
    /\ pc' = "written"
    /\ UNCHANGED <<clock, db, net, delay, stage, order, inflight,
                   current_start, current_end, weeks_data, crash>>
    /\ UNCHANGED <<dateVars, retryVars, dataVars>>

(***************************************************************************)
(* Specifications                                                          *)
(***************************************************************************)
NotStarted ==
    /\ pc = "start"
    /\ today = 0 /\ w1_start = 0 /\ w1_end = 0 /\ final_end = 0 /\ season_str = ""
    /\ stage = "none" /\ i = 0 /\ status = "idle"
    /\ outcomes = <<>> /\ sleeps = <<>> /\ result = NoResult /\ error = NoError
    /\ order = <<>> /\ inflight = {}
    /\ full_schedule = EmptyFrame
    /\ stats_dict = [Season |-> EmptyFrame, L7 |-> EmptyFrame, L14 |-> EmptyFrame]
    /\ def_ratings = <<>>
    /\ stats_today = 0 /\ d7 = 0 /\ d14 = 0 /\ warned = FALSE
    /\ current_start = 0 /\ current_end = 0 /\ weeks_data = <<>>
    /\ crash = "none" /\ output = FALSE

\* the run on a few days around the turn of the stale year, any provider
\* contents, an unreliable network
FirstClock == Ord(StaleYear, 12, 29)

Init ==
    /\ clock \in FirstClock .. (FirstClock + ClockSpan - 1)
    /\ db \in Databases
    /\ net = "flaky"
    /\ delay = DefaultDelay
    /\ NotStarted

Next ==
    \/ Resolve
    \/ RetryCall
    \/ RetrySleep
    \/ FinishSchedule
    \/ FinishSeason
    \/ FinishL7
    \/ FinishL14
    \/ FinishRatings
    \/ ProcessWeek
    \/ WriteReport

Spec == Init /\ [][Next]_vars

\* the run on every day of a range of years, one provider, a reliable network
OneDb ==
    [games |-> <<CandidateGames[1]>>, recent |-> [l7 |-> {101}, l14 |-> {101, 102}],
     ratings |-> CHOOSE r \in RatingOptions : r.has_def]

InitDates ==
    /\ clock \in Ord(StaleYear - YearsBack, 1, 1) .. Ord(StaleYear + YearsAhead, 12, 31)
    /\ db = OneDb
    /\ net = "up"
    /\ delay = DefaultDelay
    /\ NotStarted

\* with the network up no call fails, and retry_api_call never sleeps
NextDates ==
    \/ Resolve
    \/ RetryCall
    \/ FinishSchedule
    \/ FinishSeason
    \/ FinishL7
    \/ FinishL14
    \/ FinishRatings
    \/ ProcessWeek
    \/ WriteReport

SpecDates == InitDates /\ [][NextDates]_vars

\* retry_api_call alone, entered with any delay
InitRetry ==
    /\ clock = FirstClock
    /\ db \in {d \in Databases : d.recent.l7 = {} /\ d.ratings.has_def}
    /\ net = "flaky"
    /\ delay \in 1..MaxDelay
    /\ pc = "fetch"
    /\ today = ResolveToday(clock) /\ w1_start = today /\ w1_end = W1End(today)
    /\ final_end = FinalEnd(today) /\ season_str = SeasonStr(today)
    /\ stage = "schedule" /\ i = 0 /\ status = "running"
    /\ outcomes = <<>> /\ sleeps = <<>> /\ result = NoResult /\ error = NoError
    /\ order = <<"schedule">> /\ inflight = {"schedule"}
    /\ full_schedule = EmptyFrame
    /\ stats_dict = [Season |-> EmptyFrame, L7 |-> EmptyFrame, L14 |-> EmptyFrame]
    /\ def_ratings = <<>>
    /\ stats_today = 0 /\ d7 = 0 /\ d14 = 0 /\ warned = FALSE
    /\ current_start = 0 /\ current_end = 0 /\ weeks_data = <<>>
    /\ crash = "none" /\ output = FALSE

NextRetry == RetryCall \/ RetrySleep

SpecRetry == InitRetry /\ [][NextRetry]_vars

\* get_team_defensive_ratings alone, on any table of the provider
InitRatings ==
    /\ clock = FirstClock
    /\ db \in {[OneDb EXCEPT !.ratings = t] : t \in RatingTables}
    /\ net = "flaky"
    /\ delay = DefaultDelay
    /\ pc = "fetch"
    /\ today = ResolveToday(clock) /\ w1_start = today /\ w1_end = W1End(today)
    /\ final_end = FinalEnd(today) /\ season_str = SeasonStr(today)
    /\ stage = "ratings" /\ i = 0 /\ status = "running"
    /\ outcomes = <<>> /\ sleeps = <<>> /\ result = NoResult /\ error = NoError
    /\ order = Stages /\ inflight = {"ratings"}
    /\ full_schedule = EmptyFrame
    /\ stats_dict = [Season |-> EmptyFrame, L7 |-> EmptyFrame, L14 |-> EmptyFrame]
    /\ def_ratings = <<>>
    /\ stats_today = clock /\ d7 = clock - 7 /\ d14 = clock - 14 /\ warned = TRUE
    /\ current_start = 0 /\ current_end = 0 /\ weeks_data = <<>>
    /\ crash = "none" /\ output = FALSE

NextRatings == RetryCall \/ RetrySleep \/ FinishRatings

SpecRatings == InitRatings /\ [][NextRatings]_vars

\* get_badge_html alone, on a ratings mapping that holds any rank for BBB or
\* is empty
InitBadge ==
    /\ clock = FirstClock
    /\ db = OneDb
    /\ net = "up"
    /\ delay = DefaultDelay
    /\ pc = "badge"
    /\ today = 0 /\ w1_start = 0 /\ w1_end = 0 /\ final_end = 0 /\ season_str = ""
    /\ stage = "none" /\ i = 0 /\ status = "idle"
    /\ outcomes = <<>> /\ sleeps = <<>> /\ result = NoResult /\ error = NoError
    /\ order = <<>> /\ inflight = {}
    /\ full_schedule = EmptyFrame
    /\ stats_dict = [Season |-> EmptyFrame, L7 |-> EmptyFrame, L14 |-> EmptyFrame]
    /\ def_ratings \in {<<>>} \cup
          {[a \in {"BBB"} |-> [Rank |-> r, DefRtg |-> 100 + r]] : r \in 1..MaxRank}
    /\ stats_today = 0 /\ d7 = 0 /\ d14 = 0 /\ warned = FALSE
    /\ current_start = 0 /\ current_end = 0 /\ weeks_data = <<>>
    /\ crash = "none" /\ output = FALSE

\* one call get_badge_html(opp_abbr, is_home)
BuildBadge ==
    /\ pc = "badge"
    /\ \E opp_abbr \in {"AAA", "BBB"}, is_home \in BOOLEAN :
          result' = [kind |-> "badge",
                     info |-> BadgeInfo(def_ratings, opp_abbr, is_home),
                     html |-> get_badge_html(def_ratings, opp_abbr, is_home)]
    /\ pc' = "badged"
    /\ UNCHANGED <<clock, db, net, delay, stage, i, status, outcomes, sleeps, error,
                   order, inflight>>
    /\ UNCHANGED <<dateVars, dataVars, weekVars>>

SpecBadge == InitBadge /\ [][BuildBadge]_vars

(***************************************************************************)
(* Properties                                                              *)
(***************************************************************************)
RECURSIVE Sum(_)
Sum(s) == IF Len(s) = 0 THEN 0 ELSE Head(s) + Sum(Tail(s))

\* the first k attempts failed with a transient error
FirstFailed(k) ==
    /\ Len(outcomes) >= k
    /\ \A j \in 1..k : outcomes[j].kind = "transient"

\* C1: when the call fails with a transient error on its first k attempts
\* (0 <= k <= 4) and succeeds on attempt k+1, retry_api_call returns that
\* result, has made exactly k+1 calls, and has slept delay*1, ..., delay*k,
\* delay*k*(k+1)/2 seconds in all.
C1_SucceedsAfterKFailures ==
    \A k \in 0..(retries - 1) :
        (FirstFailed(k) /\ Len(outcomes) > k /\ outcomes[k + 1].kind = "ok")
        => /\ status = "returned"
           /\ result = Response
           /\ Len(outcomes) = k + 1
           /\ sleeps = [j \in 1..k |-> delay * j]
           /\ 2 * Sum(sleeps) = delay * k * (k + 1)

\* two failures, then success, with a delay that is not the default
C1_Witness ==
    /\ status = "returned"
    /\ delay = 3
    /\ FirstFailed(2)
    /\ Len(outcomes) = 3
    /\ outcomes[3].kind = "ok"
    /\ Sum(sleeps) = 9

\* C2: the call is never made more than 5 times; when all 5 attempts fail
\* with a transient error, retry_api_call has slept delay*1..delay*4 and no
\* more, returns nothing, and raises the error of the fifth attempt.
C2_ExhaustedRetriesRaise ==
    /\ Len(outcomes) <= retries
    /\ Len(sleeps) <= retries - 1
    /\ FirstFailed(retries)
        => /\ status = "raised"
           /\ error = outcomes[retries]
           /\ error.attempt = retries
           /\ result = NoResult
           /\ sleeps = [j \in 1..(retries - 1) |-> delay * j]

C2_Witness ==
    /\ FirstFailed(retries)
    /\ status = "raised"
    /\ Len(sleeps) = 4

\* the fetches are over, and at least one of them gave nothing
SomeFetchEmpty ==
    /\ pc \in {"weeks", "crashed", "written"}
    /\ \/ IsEmpty(full_schedule)
       \/ IsEmpty(stats_dict.Season)
       \/ IsEmpty(stats_dict.L7)
       \/ IsEmpty(stats_dict.L14)
       \/ DOMAIN def_ratings = {}

\* C3: whatever fetches end with no data, the run does not abort: no week
\* raises, and the report is written only with all four weeks processed.
C3_EmptyDataDoesNotAbort ==
    SomeFetchEmpty
    => /\ pc # "crashed"
       /\ pc = "written" => Len(weeks_data) = NumWeeks

\* C4: the weekly windows of the loop are contiguous and do not overlap;
\* weeks 2 to 4 have exactly 7 days; week 1 starts today; week 4 ends at
\* final_end.
C4_WeeksContiguous ==
    /\ \A k \in 1..Len(weeks_data) : weeks_data[k].start <= weeks_data[k].end
    /\ \A k \in 1..(Len(weeks_data) - 1) :
          weeks_data[k + 1].start = weeks_data[k].end + 1
    /\ \A k \in 2..Len(weeks_data) :
          weeks_data[k].end - weeks_data[k].start + 1 = 7
    /\ Len(weeks_data) >= 1 => weeks_data[1].start = today
    /\ Len(weeks_data) = NumWeeks => weeks_data[NumWeeks].end = final_end

\* all four windows, for a today that is no Monday
C4_Witness ==
    /\ Len(weeks_data) = NumWeeks
    /\ Weekday(today) = 3
    /\ weeks_data[1].end - weeks_data[1].start + 1 = 4

\* the window was computed
Resolved == pc # "start"

\* week 1 of the window: from today to the first Sunday on or after it
Week1ToSunday ==
    /\ today = ResolveToday(clock)
    /\ w1_start = today
    /\ Weekday(w1_end) = 6
    /\ w1_end - today \in 0..6
    /\ final_end = w1_end + 3 * 7

\* C5 as stated: the window starts today, week 1 ends on the upcoming
\* Sunday, three more 7-day weeks follow, and today through final_end is 28
\* days.
C5_Original ==
    Resolved => (Week1ToSunday /\ final_end - today + 1 = 28)

\* C5, amended: as stated, but today through final_end is 22 to 28 days (the
\* days left of this week, and 21), 28 only when today is a Monday.
C5_WindowLength ==
    Resolved
    => /\ Week1ToSunday
       /\ final_end - today + 1 \in 22..28
       /\ final_end - today + 1 = (w1_end - today + 1) + 21
       /\ (final_end - today + 1 = 28) <=> (Weekday(today) = 0)

\* a window of 24 days, started on a Friday
C5_Witness ==
    /\ Resolved
    /\ Weekday(today) = 4
    /\ final_end - today + 1 = 24

\* C6 as stated: the label is "{Y}-{(Y+1)%100}" for a month from October on
\* and "{Y-1}-{Y%100}" before, Y and the month those of today after the
\* stale-year override.
C6_Original ==
    Resolved
    => /\ today = ResolveToday(clock)
       /\ LET Y == YearOf(today) IN
          season_str = IF MonthOf(today) >= 10
                       THEN ToString(Y) \o "-" \o ToString((Y + 1) % 100)
                       ELSE ToString(Y - 1) \o "-" \o ToString(Y % 100)

\* C6, amended: the second part of the label is written with two digits,
\* zero-padded ("2008-09"); 2025-11-15 gives "2025-26", 2025-03-01 gives
\* "2024-25", and no label is computed from a date of the stale year.
C6_SeasonLabel ==
    Resolved
    => /\ today = ResolveToday(clock)
       /\ YearOf(today) # StaleYear
       /\ LET Y == YearOf(today) IN
          season_str = IF MonthOf(today) >= 10
                       THEN ToString(Y) \o "-" \o Pad2((Y + 1) % 100)
                       ELSE ToString(Y - 1) \o "-" \o Pad2(Y % 100)
       /\ today = Ord(2025, 11, 15) => season_str = "2025-26"
       /\ today = Ord(2025, 3, 1) => season_str = "2024-25"

\* a clock in the stale year, in November: the label of the year after
C6_Witness ==
    /\ Resolved
    /\ clock = Ord(StaleYear, 11, 15)
    /\ today = Ord(2025, 11, 15)
    /\ season_str = "2025-26"

\* how hard a matchup of a colour is: 5 for red down to 1 for green
Difficulty(color) ==
    IF color = Red THEN 5
    ELSE IF color = Orange THEN 4
    ELSE IF color = Yellow THEN 3
    ELSE IF color = LightGreen THEN 2
    ELSE IF color = Green THEN 1
    ELSE 0

\* the colour of the bucket of rank r, boundaries at 6/12/18/24
BucketColor(r) ==
    <<Red, Orange, Yellow, LightGreen, Green>>[((r - 1) \div 6) + 1]

\* C7: the colour of a badge of rank r in 1..30 is the colour of the bucket
\* of r (1-6 red, 7-12 orange, 13-18 yellow, 19-24 light green, 25-30 green),
\* the ranks 1..30 use exactly these 5 colours, and no higher rank has a
\* harder colour.
C7_ColorBuckets ==
    (result.kind = "badge" /\ result.info.rank \in 1..30)
    => /\ result.info.color = BucketColor(result.info.rank)
       /\ result.info.color \in {Red, Orange, Yellow, LightGreen, Green}
       /\ Cardinality({get_color_for_rank(r) : r \in 1..30}) = 5
       /\ \A r \in 1..30 :
             r >= result.info.rank
             => Difficulty(get_color_for_rank(r)) <= Difficulty(result.info.color)
       /\ \A r \in 1..30 :
             r <= result.info.rank
             => Difficulty(get_color_for_rank(r)) >= Difficulty(result.info.color)

\* a badge of rank 24, the last light green one
C7_Witness ==
    /\ result.kind = "badge"
    /\ result.info.rank = 24
    /\ result.info.color = LightGreen

\* the schedule has no row between two dates
ZeroRows(start_date, end_date) ==
    \A k \in 1..Len(full_schedule.rows) :
        ~ (/\ full_schedule.rows[k].GAME_DATE >= start_date
           /\ full_schedule.rows[k].GAME_DATE <= end_date)

\* C8: a week with zero schedule rows gets an empty team grid and a player
\* table whose rows all show the placeholder (or blank) on every day and a
\* game count of zero; in particular the week is processed.
C8_EmptyWeekGrid ==
    /\ pc = "crashed" => ~ ZeroRows(current_start, current_end)
    /\ \A k \in 1..Len(weeks_data) :
          ZeroRows(weeks_data[k].start, weeks_data[k].end)
          => /\ IsEmpty(weeks_data[k].team_df)
             /\ \A j \in 1..Len(weeks_data[k].content.players) :
                   /\ weeks_data[k].content.players[j].Games = 0
                   /\ \A d \in 1..Len(weeks_data[k].day_cols) :
                         weeks_data[k].content.players[j].Days[d] \in {Placeholder, ""}

\* the players of the season stats with games played
ActivePlayers ==
    IF "GP" \in stats_dict.Season.cols
    THEN {stats_dict.Season.rows[k].PLAYER_ID :
             k \in {j \in 1..Len(stats_dict.Season.rows) : stats_dict.Season.rows[j].GP > 0}}
    ELSE {}

\* player p has a row in the L7 (L14) stats
InStats(period, p) ==
    \E k \in 1..Len(stats_dict[period].rows) : stats_dict[period].rows[k].PLAYER_ID = p

\* C9: in every week, every player of the season stats with games played
\* has a row in the merged player table, with the season values, also when
\* the player is not in the L7 or L14 stats (whose values are then missing);
\* a join on the L7 or L14 stats does not end the week without a table.
C9_NoPlayerDropped ==
    /\ (pc = "crashed" /\ crash \in {"KeyError: PLAYER_ID_L7", "KeyError: PLAYER_ID_L14"})
        => ActivePlayers = {}
    /\ \A k \in 1..Len(weeks_data) : \A p \in ActivePlayers :
          \E j \in 1..Len(weeks_data[k].player_df.rows) :
              LET row == weeks_data[k].player_df.rows[j] IN
              /\ row.PLAYER_ID = p
              /\ row.PTS = Pts("season", p)
              /\ ~ InStats("L7", p) => IsNaN(row.PTS_L7)
              /\ ~ InStats("L14", p) => IsNaN(row.PTS_L14)

\* C10: the fetches start in the order schedule, season, L7, L14, ratings,
\* at most one is in progress at any time, and every remote call made
\* belongs to the one fetch in progress.
C10_FetchesInSequence ==
    /\ Cardinality(inflight) <= 1
    /\ Len(order) <= Len(Stages)
    /\ \A k \in 1..Len(order) : order[k] = Stages[k]
    /\ pc = "fetch" => inflight = {order[Len(order)]} /\ stage = order[Len(order)]
    /\ pc \in {"weeks", "crashed", "written"} => inflight = {} /\ Len(order) = Len(Stages)
    /\ Len(outcomes) > 0 => stage \in inflight \/ pc # "fetch"

\* the ratings fetch is retrying after the four others finished
C10_Witness ==
    /\ pc = "fetch"
    /\ order = Stages
    /\ inflight = {"ratings"}
    /\ Len(outcomes) = 3
    /\ Len(sleeps) = 2

\* a string that is the decimal notation of a number
IsNumeral(str) ==
    \/ str # "nan" /\ CanParseFloat(str)
    \/ Len(str) > 0 /\ \A k \in 1..Len(str) : IsDigit(Char(str, k))

\* the number a numeral denotes, in thousandths
NumberOf(str) ==
    IF CanParseFloat(str) THEN ParseFloat(str) ELSE 1000 * Digits(str, Len(str))

\* the stat cells of the rows of the player tables rendered so far
StatCells ==
    {<<k, j, g, m>> \in (1..Len(weeks_data)) \X (1..Len(Players))
                        \X (1..Len(Suffixes)) \X (1..Len(stat_metrics)) :
        j <= Len(weeks_data[k].content.players)}

\* C11: every stat cell has a numeric sort value and a display value that
\* denote the same number, in the season, L7 and L14 groups, also for a
\* player absent from the L7 or L14 stats: a percentage cell shows the ratio
\* times 100 with one decimal and "%", and sorts by that number without the
\* "%" (0.457 gives "45.7%" and 45.7).
C11_StatCellsNumeric ==
    \A c \in StatCells :
        LET row == weeks_data[c[1]].player_df.rows[c[2]]
            cell == weeks_data[c[1]].content.players[c[2]].Cells[c[3]][c[4]]
        IN /\ IsNumeral(cell.order)
           /\ IF cell.metric \in PctMetrics
              THEN /\ cell.text = cell.order \o "%"
                   /\ Char(cell.order, Len(cell.order) - 1) = "."
              ELSE /\ IsNumeral(cell.text)
                   /\ NumberOf(cell.text) = NumberOf(cell.order)
           /\ (c[3] = 1 /\ cell.metric = "FG%" /\ row.FG_PCT = 457)
               => (cell.text = "45.7%" /\ cell.order = "45.7")

\* the badge of an opponent at the neutral rank, as line 76 writes it
NeutralBadge(opp_abbr, is_home) ==
    "<div style='background-color:#ffffcc;' title='Def Rank: 15'>"
    \o (IF is_home THEN "vs" ELSE "@") \o " " \o opp_abbr \o "</div>"

\* the cell of the team grid of week k that shows schedule row g
BadgeCell(k, g) ==
    LET OfTeam(r) == r.TEAM_ID = g.TEAM_ID
        team_row == SelectSeq(weeks_data[k].team_df.rows, OfTeam)
    IN IF Len(team_row) = 0 THEN "no row" ELSE team_row[1][DayLabel(g.GAME_DATE)]

\* the rows of the schedule that fall in week k
GamesOfWeek(k) ==
    {g \in Range(full_schedule.rows) :
        g.GAME_DATE >= weeks_data[k].start /\ g.GAME_DATE <= weeks_data[k].end}

\* C12: a badge for an opponent that the ratings mapping does not hold is
\* built, with rank 15 and the yellow colour, and the week does not raise on
\* the lookup; with an empty ratings mapping every badge of every week is
\* that badge.
C12_UnratedOpponentNeutral ==
    /\ get_color_for_rank(DefaultRank) = Yellow
    /\ pc = "crashed" => "GAME_DATE" \notin full_schedule.cols
                          \/ IsEmpty(stats_dict.Season)
                          \/ IsEmpty(stats_dict.L7)
                          \/ IsEmpty(stats_dict.L14)
    /\ \A k \in 1..Len(weeks_data) : \A g \in GamesOfWeek(k) :
          g.MATCHUP[3] \notin DOMAIN def_ratings
          => BadgeCell(k, g) = NeutralBadge(g.MATCHUP[3], g.MATCHUP[2] = "vs.")
    /\ DOMAIN def_ratings = {}
        => \A k \in 1..Len(weeks_data) :
              \A j \in 1..Len(weeks_data[k].content.team) :
                 \A d \in 1..Len(weeks_data[k].day_cols) :
                    LET cell == weeks_data[k].content.team[j].Days[d]
                    IN cell = "" \/ \E opp \in Range(id_to_abbr), is_home \in BOOLEAN :
                                       cell = NeutralBadge(opp, is_home)

\* team CCC is not in a ratings mapping that holds AAA and BBB, and the grid
\* of a week shows AAA playing it
C12_Witness ==
    /\ DOMAIN def_ratings = {"AAA", "BBB"}
    /\ \E k \in 1..Len(weeks_data) : \E g \in GamesOfWeek(k) :
          /\ g.MATCHUP[3] = "CCC"
          /\ BadgeCell(k, g) = NeutralBadge("CCC", TRUE)

\* get_team_defensive_ratings got the table of the provider
RatingsRanked == pc = "weeks" /\ result.kind = "frame"

\* the rank the mapping gives the team of a row of the table
RankOf(row) == def_ratings[id_to_abbr[row.TEAM_ID]].Rank

\* row a is ahead of row b in the order the ranks follow: a lower defensive
\* rating, or a higher win percentage when the table has no rating
Better(a, b) ==
    IF db.ratings.has_def THEN a.DEF_RATING < b.DEF_RATING ELSE a.W_PCT > b.W_PCT

\* C13: from a table of N teams the mapping gets one entry per team, the
\* ranks are the values 1..N each used once, and a team with a strictly
\* lower defensive rating (a strictly higher win percentage, when the table
\* has no rating) has a strictly smaller rank.
C13_DenseRank ==
    RatingsRanked
    => LET rows == Range(db.ratings.rows)
           N == Len(db.ratings.rows)
       IN /\ DOMAIN def_ratings = {id_to_abbr[r.TEAM_ID] : r \in rows}
          /\ Cardinality(DOMAIN def_ratings) = N
          /\ {def_ratings[a].Rank : a \in DOMAIN def_ratings} = 1..N
          /\ \A a, b \in rows :
                a.TEAM_ID # b.TEAM_ID => RankOf(a) # RankOf(b)
          /\ \A a, b \in rows : Better(a, b) => RankOf(a) < RankOf(b)
          /\ db.ratings.has_def
              => \A r \in rows : def_ratings[id_to_abbr[r.TEAM_ID]].DefRtg = r.DEF_RATING

\* three teams ranked by win percentage, two of them tied, from a table
\* that lists the best team last
C13_Witness ==
    /\ RatingsRanked
    /\ ~ db.ratings.has_def
    /\ Len(db.ratings.rows) = 3
    /\ db.ratings.rows[1].W_PCT = db.ratings.rows[2].W_PCT
    /\ db.ratings.rows[3].W_PCT > db.ratings.rows[1].W_PCT
    /\ RankOf(db.ratings.rows[3]) = 1
    /\ {RankOf(db.ratings.rows[1]), RankOf(db.ratings.rows[2])} = {2, 3}

\* fetch_stats(d7), fetch_stats(d14) was entered
Requested(period) == period \in Range(order)

\* C14: one current date serves the whole run: the L7 and L14 requests ask
\* for the stats from today - 7 and today - 14, today being the date the
\* reporting window and the season label are computed from, also when the
\* system clock is in the stale year and today is a year ahead of it.
C14_SingleToday ==
    /\ Requested("L7") => (stats_today = today /\ d7 = today - 7)
    /\ Requested("L14") => d14 = today - 14
    /\ Resolved => (w1_start = today /\ season_str = SeasonStr(today))

====
